---- MODULE Spec2Model ----
(***************************************************************************)
(* Model of the persistence layer of rss-parrot (src/src/dal/repo.go):     *)
(* the schema version store, the identifier generator, the account store,  *)
(* the follower store, the toot and feed-post logs and the toot delivery   *)
(* queue, as state machines over the rows of the SQLite tables the Repo    *)
(* methods read and write.                                                 *)
(***************************************************************************)
EXTENDS Integers, Sequences, FiniteSets, TLC

VARIABLES
    nextId,      \* Repo.nextId (uint64, scaled to IdBits bits)
    muId,        \* Repo.muId: 0 when free, else the caller holding it
    idPc,        \* position of each caller inside GetNextId
    idRes,       \* the local `res` of each caller's GetNextId
    idCalls      \* history: calls in the order they took muId, with their results

VARIABLES
    accounts,    \* rows of table accounts, in rowid order
    acctPc,      \* position of each caller inside AddAccountIfNotExist
    acctArg,     \* the arguments of each caller's running AddAccountIfNotExist
    addLog,      \* history: completed AddAccountIfNotExist calls, in completion order
    chkRes       \* the last GetAccountToCheck call: argument and results

VARIABLES
    feedPosts,   \* rows of table feed_posts
    feedLog      \* history: completed AddFeedPostIfNew calls, in call order

VARIABLES
    tootQueue,   \* rows of table toot_queue
    tqSeq,       \* the largest id the store has assigned in toot_queue
    tqIssued,    \* history: the ids given to enqueued items, in enqueue order
    qRes,        \* the last GetTootQueueItems or DeleteTootQueueItem call
    conCursor,   \* the consumer's cursor: the last id it was handed
    conPages,    \* the pages the consumer was handed, concatenated
    conM,        \* the consumer's page size
    conDone,     \* the consumer was handed an empty page
    conDeleted   \* history: an item was deleted since the consumer started

VARIABLES
    followers,   \* rows of table followers, in rowid order
    toots,       \* rows of table toots, in rowid order
    folRes       \* the last follower-store, toot-log or lookup call

VARIABLES
    schedAcct,   \* the account each scheduler was handed and has not yet updated
    schedNow     \* the time each scheduler passed to GetAccountToCheck

VARIABLES
    sysParams,   \* table sys_params: whether it exists, has the schema_ver row, its val
    applied,     \* how much of each migration script the store has applied
    schemaVer,   \* const schemaVer of the release that is running
    initPc,      \* position of the process inside InitUpdateDb
    dbVer,       \* the local dbVer of the running InitUpdateDb
    loopI,       \* the loop variable i of the running InitUpdateDb
    runs,        \* history: number of process starts
    execLog,     \* history: the scripts handed to db.Exec, over all runs
    runStart,    \* history: the store when the running InitUpdateDb started
    failedAt     \* history: the migration step at which this run failed, else 0

idVars == <<nextId, muId, idPc, idRes, idCalls>>
acctVars == <<accounts, acctPc, acctArg, addLog, chkRes>>
feedVars == <<feedPosts, feedLog>>
conVars == <<conCursor, conPages, conM, conDone, conDeleted>>
queueVars == <<tootQueue, tqSeq, tqIssued, qRes, conVars>>

folVars == <<followers, toots, folRes>>
schedVars == <<schedAcct, schedNow>>
initVars == <<sysParams, applied, schemaVer, initPc, dbVer, loopI, runs, execLog, runStart, failedAt>>

vars == <<idVars, acctVars, feedVars, queueVars, folVars, schedVars, initVars>>

\* what the operations of one component leave alone
IdFrame == UNCHANGED <<acctVars, feedVars, queueVars, folVars, schedVars, initVars>>
AcctFrame == UNCHANGED <<idVars, feedVars, queueVars, folVars, schedVars, initVars>>
FeedFrame == UNCHANGED <<idVars, acctVars, queueVars, folVars, schedVars, initVars>>
QueueFrame == UNCHANGED <<idVars, acctVars, feedVars, folVars, schedVars, initVars>>
FollowFrame == UNCHANGED <<idVars, acctVars, feedVars, queueVars, schedVars, initVars>>
SchedFrame == UNCHANGED <<idVars, feedVars, queueVars, folVars, initVars>>
InitFrame ==
    UNCHANGED <<idVars, feedVars, queueVars, folVars, schedVars,
                acctPc, acctArg, addLog, chkRes>>

(***************************************************************************)
(* Bounds                                                                  *)
(***************************************************************************)
\* width of the identifier in the model; uint64 in the code
IdBits == 4
\* number of concurrent callers of GetNextId
NumCallers == 2
\* total number of GetNextId calls in a behaviour
MaxIdCalls == 3

Callers == 1..NumCallers

RECURSIVE Pow2(_)
Pow2(n) == IF n = 0 THEN 1 ELSE 2 * Pow2(n - 1)

\* uint64 arithmetic wraps; the model wraps at IdBits bits
IdMod == Pow2(IdBits)

\* NewRepo seeds nextId with uint64(time.Now().UnixNano()): UnixNano is a
\* non-negative int64 for every wall-clock time after 1970, so the seed lies in
\* the lower half of the unsigned range.
Seeds == {0, Pow2(IdBits - 1) - 1}

(***************************************************************************)
(* Identifier generator: NewRepo, GetNextId                                *)
(***************************************************************************)
NewRepo ==
    /\ nextId \in Seeds
    /\ muId = 0
    /\ idPc = [c \in Callers |-> "idle"]
    /\ idRes = [c \in Callers |-> 0]
    /\ idCalls = <<>>

\* a caller enters GetNextId
IdCall(c) ==
    /\ idPc[c] = "idle"
    /\ Len(idCalls) + Cardinality({d \in Callers : idPc[d] = "lock"}) < MaxIdCalls
    /\ idPc' = [idPc EXCEPT ![c] = "lock"]
    /\ UNCHANGED <<nextId, muId, idRes, idCalls>>
    /\ IdFrame

\* variant: the increment is not guarded by the mutex
MutexFree_NoLock(c) == TRUE

\* whether caller c may pass repo.muId.Lock()
MutexFree(c) == muId = 0

\* repo.muId.Lock()
IdLock(c) ==
    /\ idPc[c] = "lock"
    /\ MutexFree(c)
    /\ muId' = IF muId = 0 THEN c ELSE muId
    /\ idPc' = [idPc EXCEPT ![c] = "read"]
    /\ idCalls' = Append(idCalls, [caller |-> c, done |-> FALSE, ret |-> 0])
    /\ UNCHANGED <<nextId, idRes>>
    /\ IdFrame

\* res := repo.nextId + 1
IdRead(c) ==
    /\ idPc[c] = "read"
    /\ idRes' = [idRes EXCEPT ![c] = (nextId + 1) % IdMod]
    /\ idPc' = [idPc EXCEPT ![c] = "write"]
    /\ UNCHANGED <<nextId, muId, idCalls>>
    /\ IdFrame

\* repo.nextId = res
IdWrite(c) ==
    /\ idPc[c] = "write"
    /\ nextId' = idRes[c]
    /\ idPc' = [idPc EXCEPT ![c] = "unlock"]
    /\ UNCHANGED <<muId, idRes, idCalls>>
    /\ IdFrame

\* repo.muId.Unlock()
IdUnlock(c) ==
    /\ idPc[c] = "unlock"
    /\ muId' = IF muId = c THEN 0 ELSE muId
    /\ idPc' = [idPc EXCEPT ![c] = "ret"]
    /\ UNCHANGED <<nextId, idRes, idCalls>>
    /\ IdFrame

\* the index in idCalls of caller c's call that has not returned yet
PendingIdx(c) ==
    CHOOSE i \in 1..Len(idCalls) : idCalls[i].caller = c /\ ~idCalls[i].done

\* return res
IdReturn(c) ==
    /\ idPc[c] = "ret"
    /\ idCalls' = [idCalls EXCEPT ![PendingIdx(c)] = [caller |-> c, done |-> TRUE, ret |-> idRes[c]]]
    /\ idPc' = [idPc EXCEPT ![c] = "idle"]
    /\ UNCHANGED <<nextId, muId, idRes>>
    /\ IdFrame

GetNextId(c) ==
    \/ IdCall(c)
    \/ IdLock(c)
    \/ IdRead(c)
    \/ IdWrite(c)
    \/ IdUnlock(c)
    \/ IdReturn(c)

(***************************************************************************)
(* Errors of database/sql and of the go-sqlite3 driver                     *)
(***************************************************************************)
\* a nil error
NoErr == [typ |-> "nil", Code |-> 0, ExtendedCode |-> 0]

\* The driver reports a failed statement as a sqlite3.Error VALUE (the type
\* line 162 asserts), carrying SQLite's primary and extended result codes.
SqliteError(code, ext) == [typ |-> "sqlite3.Error", Code |-> code, ExtendedCode |-> ext]

\* UNIQUE constraint failed: SQLITE_CONSTRAINT (19), SQLITE_CONSTRAINT_UNIQUE (2067)
ErrUnique == SqliteError(19, 2067)
\* NOT NULL constraint failed: SQLITE_CONSTRAINT (19), SQLITE_CONSTRAINT_NOTNULL (1299)
ErrNotNull == SqliteError(19, 1299)
\* an error of database/sql itself (sql.ErrConnDone, driver.ErrBadConn ...)
ErrSql == [typ |-> "*errors.errorString", Code |-> 0, ExtendedCode |-> 0]

\* the failures the environment can inject into one statement
Faults == {"none", "notnull", "sql"}

FaultErr(fault) ==
    CASE fault = "notnull" -> ErrNotNull
      [] fault = "sql" -> ErrSql
      [] OTHER -> NoErr

\* sqliteErr, ok := err.(sqlite3.Error)
AssertValue(err) == err.typ = "sqlite3.Error"

\* sqliteErr, ok := err.(*sqlite3.Error)
AssertPointer(err) == err.typ = "*sqlite3.Error"

(***************************************************************************)
(* Account store                                                           *)
(***************************************************************************)
\* number of concurrent callers of the store
NumProcs == 2
\* total number of AddAccountIfNotExist calls in a behaviour
MaxAddCalls == 3
\* times are 0..MaxTime
MaxTime == 2

Procs == 1..NumProcs
Times == 0..MaxTime

\* cfg.Birb.User, the built-in account
BirbUser == "birb"
Handles == {BirbUser, "h1", "h2"}
\* the (account fields, private key) pairs callers pass
AcctInputs == {[data |-> "d1", privkey |-> "k1"], [data |-> "d2", privkey |-> "k2"]}

\* a nil *Account (rowids start at 1)
Nil == [id |-> 0, handle |-> "", data |-> "", feedLastUpdated |-> 0, nextCheckDue |-> 0]
\* no call running
NoArg == [handle |-> "", data |-> "", fault |-> "none", insErr |-> NoErr]

\* value of feed_last_updated and next_check_due in a row inserted without them
DefaultTime == 0

\* id of the next row of accounts (INTEGER PRIMARY KEY; rows are never deleted)
NextAccountId == Len(accounts) + 1

NewAccountRow(handle, data, privKey) ==
    [id |-> NextAccountId, handle |-> handle, data |-> data, privkey |-> privKey,
     feedLastUpdated |-> DefaultTime, nextCheckDue |-> DefaultTime]

AccountRows == {accounts[i] : i \in 1..Len(accounts)}

\* the accounts table once InitUpdateDb has run on an empty store: the built-in
\* account, then the account of the two DBG calls
InitAccounts ==
    <<[id |-> 1, handle |-> BirbUser, data |-> "birb", privkey |-> "kb",
       feedLastUpdated |-> DefaultTime, nextCheckDue |-> DefaultTime],
      [id |-> 2, handle |-> "handle", data |-> "", privkey |-> "xyz",
       feedLastUpdated |-> DefaultTime, nextCheckDue |-> DefaultTime]>>

\* no call of the account store is running or has returned
InitAcctCalls ==
    /\ acctPc = [p \in Procs |-> "idle"]
    /\ acctArg = [p \in Procs |-> NoArg]
    /\ addLog = <<>>
    /\ chkRes = [tick |-> 0, checkDue |-> 0, acct |-> Nil, err |-> NoErr]

InitAcct ==
    /\ accounts = InitAccounts
    /\ InitAcctCalls

\* the handle column of accounts is UNIQUE
HandleTaken(handle) == \E r \in AccountRows : r.handle = handle

\* the error of INSERT INTO accounts (...) VALUES (...)
ExecInsertAccount(handle, fault) ==
    IF fault # "none" THEN FaultErr(fault)
    ELSE IF HandleTaken(handle) THEN ErrUnique
    ELSE NoErr

\* variant: the pointer assertion of line 376
IsDuplicateHandle_Pointer(err) ==
    AssertPointer(err) /\ err.Code = 19 /\ err.ExtendedCode = 2067

\* variant: any constraint error (Code 19) counts as a duplicate handle
IsDuplicateHandle_AnyConstraint(err) == AssertValue(err) /\ err.Code = 19

\* the condition of lines 162-164: a sqlite3.Error with Code 19, ExtendedCode 2067
IsDuplicateHandle(err) ==
    AssertValue(err) /\ err.Code = 19 /\ err.ExtendedCode = 2067

\* rows.Scan / row.Scan into an Account: the columns the SELECT lists (no privkey)
ScanAccount(r) ==
    [id |-> r.id, handle |-> r.handle, data |-> r.data,
     feedLastUpdated |-> r.feedLastUpdated, nextCheckDue |-> r.nextCheckDue]

\* GetAccount: the row of the handle, (nil, nil) when sql.ErrNoRows
GetAccount(user, fault) ==
    IF fault # "none" THEN [acct |-> Nil, err |-> FaultErr(fault)]
    ELSE IF \E r \in AccountRows : r.handle = user
         THEN [acct |-> ScanAccount(CHOOSE r \in AccountRows : r.handle = user),
               err |-> NoErr]
         ELSE [acct |-> Nil, err |-> NoErr]

\* a returned call: its arguments and results, with what the store did: the
\* error of the INSERT of line 157, and whether the call inserted a row
AddLogEntry(arg, inserted, isNew, err) ==
    [handle |-> arg.handle, data |-> arg.data, fault |-> arg.fault,
     insErr |-> arg.insErr, inserted |-> inserted, isNew |-> isNew, err |-> err]

\* AddAccountIfNotExist up to the return of lines 158-160 or 170, or up to the
\* duplicate-key branch of line 164
AddAcctInsert(p, handle, in, fault) ==
    LET err == ExecInsertAccount(handle, fault)
        arg == [handle |-> handle, data |-> in.data, fault |-> fault,
                insErr |-> err]
    IN  /\ acctPc[p] = "idle"
        /\ Len(addLog) + Cardinality({q \in Procs : acctPc[q] = "fetch"}) < MaxAddCalls
        /\ \/ /\ err = NoErr
              /\ accounts' = Append(accounts, NewAccountRow(handle, in.data, in.privkey))
              /\ addLog' = Append(addLog, AddLogEntry(arg, TRUE, TRUE, err))
              /\ UNCHANGED <<acctPc, acctArg>>
           \/ /\ err # NoErr
              /\ IsDuplicateHandle(err)
              /\ acctPc' = [acctPc EXCEPT ![p] = "fetch"]
              /\ acctArg' = [acctArg EXCEPT ![p] = arg]
              /\ UNCHANGED <<accounts, addLog>>
           \/ /\ err # NoErr
              /\ ~IsDuplicateHandle(err)
              /\ addLog' = Append(addLog, AddLogEntry(arg, FALSE, TRUE, err))
              /\ UNCHANGED <<accounts, acctPc, acctArg>>
        /\ UNCHANGED chkRes
        /\ AcctFrame

\* lines 165-167: isNew = false; _, err = repo.GetAccount(acct.Handle); return
AddAcctFetch(p, fault) ==
    /\ acctPc[p] = "fetch"
    /\ LET got == GetAccount(acctArg[p].handle, fault)
           arg == [acctArg[p] EXCEPT !.fault = fault]
       IN  addLog' = Append(addLog, AddLogEntry(arg, FALSE, FALSE, got.err))
    /\ acctPc' = [acctPc EXCEPT ![p] = "idle"]
    /\ acctArg' = [acctArg EXCEPT ![p] = NoArg]
    /\ UNCHANGED <<accounts, chkRes>>
    /\ AcctFrame

AddAccountIfNotExist(p) ==
    \/ \E handle \in Handles, in \in AcctInputs, fault \in Faults :
          AddAcctInsert(p, handle, in, fault)
    \/ \E fault \in Faults : AddAcctFetch(p, fault)

\* UPDATE accounts SET feed_last_updated=?, next_check_due=? WHERE id=?
\* the table after UPDATE accounts SET feed_last_updated=?, next_check_due=?
\* WHERE id=?
SetFeedTimes(accountId, lastUpdated, nextCheckDue) ==
    [i \in 1..Len(accounts) |->
        IF accounts[i].id = accountId
        THEN [accounts[i] EXCEPT !.feedLastUpdated = lastUpdated,
                                 !.nextCheckDue = nextCheckDue]
        ELSE accounts[i]]

UpdateAccountFeedTimes(accountId, lastUpdated, nextCheckDue) ==
    /\ accounts' = SetFeedTimes(accountId, lastUpdated, nextCheckDue)
    /\ UNCHANGED <<acctPc, acctArg, addLog, chkRes>>
    /\ AcctFrame

\* variant: next_check_due<=?
IsDue_Inclusive(r, checkDue) == r.nextCheckDue <= checkDue

\* the comparison of WHERE next_check_due<?
IsDue(r, checkDue) == r.nextCheckDue < checkDue

\* the result sets SELECT ... WHERE next_check_due<? LIMIT 1 can produce: no
\* ORDER BY, so any one of the matching rows
QueryAccountToCheck(checkDue) ==
    LET due == {r \in AccountRows : IsDue(r, checkDue)}
    IN  IF due = {} THEN {<<>>} ELSE {<<r>> : r \in due}

\* lines 347-357: acct stays nil, or points at the last row scanned
ScanLoop(rows) ==
    IF rows = <<>> THEN Nil ELSE ScanAccount(rows[Len(rows)])

\* variant: the call also moves next_check_due of the account it returns to
\* the time it was passed, so that the account is no longer due
SelectAccountToCheck_Claiming(checkDue, fault) ==
    /\ \/ /\ fault # "none"
          /\ chkRes' = [tick |-> 1 - chkRes.tick, checkDue |-> checkDue,
                        acct |-> Nil, err |-> FaultErr(fault)]
          /\ UNCHANGED accounts
       \/ /\ fault = "none"
          /\ \E rows \in QueryAccountToCheck(checkDue) :
                /\ chkRes' = [tick |-> 1 - chkRes.tick, checkDue |-> checkDue,
                              acct |-> ScanLoop(rows), err |-> NoErr]
                /\ accounts' = SetFeedTimes(ScanLoop(rows).id,
                                            ScanLoop(rows).feedLastUpdated, checkDue)
    /\ UNCHANGED <<acctPc, acctArg, addLog>>

\* lines 340-358: the query, the scan loop and the return; the only statement
\* sent to the store is the SELECT
SelectAccountToCheck(checkDue, fault) ==
    /\ \/ /\ fault # "none"
          /\ chkRes' = [tick |-> 1 - chkRes.tick, checkDue |-> checkDue,
                        acct |-> Nil, err |-> FaultErr(fault)]
       \/ /\ fault = "none"
          /\ \E rows \in QueryAccountToCheck(checkDue) :
                chkRes' = [tick |-> 1 - chkRes.tick, checkDue |-> checkDue,
                           acct |-> ScanLoop(rows), err |-> NoErr]
    /\ UNCHANGED <<accounts, acctPc, acctArg, addLog>>

GetAccountToCheck(checkDue, fault) ==
    /\ SelectAccountToCheck(checkDue, fault)
    /\ AcctFrame

(***************************************************************************)
(* Feed schedulers: callers of GetAccountToCheck and UpdateAccountFeedTimes *)
(***************************************************************************)
\* number of concurrent schedulers
NumScheds == 2

Scheds == 1..NumScheds

InitSched ==
    /\ schedAcct = [s \in Scheds |-> Nil]
    /\ schedNow = [s \in Scheds |-> 0]

\* a scheduler with no account in hand asks for one that is due at `now`
SchedGet(s, now, fault) ==
    /\ schedAcct[s] = Nil
    /\ SelectAccountToCheck(now, fault)
    /\ schedAcct' = [schedAcct EXCEPT ![s] = chkRes'.acct]
    /\ schedNow' = [schedNow EXCEPT ![s] = now]
    /\ SchedFrame

\* a scheduler that has polled the feed of the account in its hand records the
\* poll and the time of the next one, which is not before the poll
SchedUpdate(s, nextCheckDue) ==
    /\ schedAcct[s] # Nil
    /\ nextCheckDue >= schedNow[s]
    /\ accounts' = SetFeedTimes(schedAcct[s].id, schedNow[s], nextCheckDue)
    /\ schedAcct' = [schedAcct EXCEPT ![s] = Nil]
    /\ schedNow' = [schedNow EXCEPT ![s] = 0]
    /\ UNCHANGED <<acctPc, acctArg, addLog, chkRes>>
    /\ SchedFrame

(***************************************************************************)
(* Schema version store: InitUpdateDb                                      *)
(***************************************************************************)
\* const schemaVer of the source at hand
ReleasedSchemaVer == 1
\* the largest schemaVer of any release of the program that is run; the loop of
\* lines 105-124 is written for any target
MaxSchemaVer == 2
\* number of process starts in a behaviour
MaxRuns == 3

Versions == 1..MaxSchemaVer

\* the version the store holds: val of the schema_ver row; a store without the
\* table or the row holds none, which InitUpdateDb reads as 0 or fails on
PersistedVer == IF sysParams.table /\ sysParams.row THEN sysParams.val ELSE 0

\* the store before the first start: no table
EmptySysParams == [table |-> FALSE, row |-> FALSE, val |-> 0]

\* variant: a failure is logged and the run goes on
Fail_LogOnly(next) == next

\* repo.logger.Errorf(...); panic(err): the run ends where it failed
Fail(next) == "panic"

\* variant: for i := 0
LoopFrom_Zero(ver) == 0

\* for i := dbVer (line 105)
LoopFrom(ver) == ver

\* The process starts (again) and calls InitUpdateDb on the store as the last
\* run left it. A run that was cut short, by a panic or by the process being
\* killed at any position, is followed by a start like any other; a later start
\* may be of a later release, whose schemaVer is not smaller.
StartInitUpdateDb(target) ==
    /\ runs < MaxRuns
    /\ target >= schemaVer
    /\ schemaVer' = target
    /\ runs' = runs + 1
    /\ initPc' = "query"
    /\ dbVer' = 0
    /\ loopI' = 0
    /\ failedAt' = 0
    /\ runStart' = [ver |-> PersistedVer, nAcc |-> Len(accounts),
                    nExec |-> Len(execLog), clean |-> initPc = "done"]
    /\ UNCHANGED <<sysParams, applied, execLog, accounts>>
    /\ InitFrame

\* lines 81-104: look for table sys_params and read the schema_ver row
ReadSchemaVer(fault) ==
    /\ initPc = "query"
    /\ IF fault # "none"
       THEN initPc' = Fail("loop") /\ UNCHANGED <<dbVer, loopI>>
       ELSE IF ~sysParams.table
       THEN initPc' = "loop" /\ UNCHANGED <<dbVer, loopI>>
       ELSE IF ~sysParams.row
       THEN initPc' = Fail("loop") /\ UNCHANGED <<dbVer, loopI>>
       ELSE initPc' = "loop" /\ dbVer' = sysParams.val
                             /\ loopI' = LoopFrom(sysParams.val)
    /\ UNCHANGED <<sysParams, applied, schemaVer, runs, execLog, runStart, failedAt, accounts>>
    /\ InitFrame

\* lines 105-113: the loop test, and scripts.ReadFile of the next script
ReadScript(fault) ==
    /\ initPc = "loop"
    /\ IF loopI < schemaVer
       THEN IF fault # "none"
            THEN initPc' = Fail("exec") /\ failedAt' = loopI + 1
            ELSE initPc' = "exec" /\ UNCHANGED failedAt
       ELSE initPc' = "seed" /\ UNCHANGED failedAt
    /\ UNCHANGED <<sysParams, applied, schemaVer, dbVer, loopI, runs, execLog, runStart, accounts>>
    /\ InitFrame

\* sys_params once statements of script v have run: script 1 creates the table
\* and inserts the schema_ver row with val 0; later scripts leave both alone
SysParamsAfter(v, part) ==
    IF v # 1 THEN {sysParams}
    ELSE IF part = "done" THEN {[table |-> TRUE, row |-> TRUE, val |-> 0]}
    ELSE {EmptySysParams, [table |-> TRUE, row |-> FALSE, val |-> 0],
          [table |-> TRUE, row |-> TRUE, val |-> 0]}

\* What db.Exec of script v can do. The script is a sequence of statements run
\* outside a transaction: it runs to its end, or fails at some statement with
\* the ones before it applied. Its statements are not repeatable: once any has
\* been applied, a second db.Exec of the script fails at its first statement.
ScriptOutcomes(v) ==
    IF applied[v] # "no"
    THEN {[ok |-> FALSE, part |-> applied[v], sys |-> sysParams]}
    ELSE {[ok |-> TRUE, part |-> "done", sys |-> sp] : sp \in SysParamsAfter(v, "done")}
         \cup {[ok |-> FALSE, part |-> "no", sys |-> sysParams]}
         \cup {[ok |-> FALSE, part |-> "partial", sys |-> sp] :
                  sp \in SysParamsAfter(v, "partial")}

\* lines 114-118: repo.db.Exec(sqlStr)
ExecScript ==
    /\ initPc = "exec"
    /\ LET nextVer == loopI + 1
       IN  /\ execLog' = Append(execLog, nextVer)
           /\ \E out \in ScriptOutcomes(nextVer) :
                /\ applied' = [applied EXCEPT ![nextVer] = out.part]
                /\ sysParams' = out.sys
                /\ IF out.ok
                   THEN initPc' = "update" /\ UNCHANGED failedAt
                   ELSE initPc' = Fail("update") /\ failedAt' = nextVer
    /\ UNCHANGED <<schemaVer, dbVer, loopI, runs, runStart, accounts>>
    /\ InitFrame

\* the table after UPDATE sys_params SET val=? WHERE name='schema_ver'
SetSchemaVer(nextVer) ==
    IF sysParams.table /\ sysParams.row THEN [sysParams EXCEPT !.val = nextVer]
    ELSE sysParams

\* lines 119-124: the UPDATE of schema_ver, and i += 1
UpdateSchemaVer(fault) ==
    /\ initPc = "update"
    /\ LET nextVer == loopI + 1
       IN  IF fault # "none"
           THEN /\ initPc' = Fail("loop")
                /\ failedAt' = nextVer
                /\ UNCHANGED <<sysParams, loopI>>
           ELSE /\ initPc' = "loop"
                /\ sysParams' = SetSchemaVer(nextVer)
                /\ loopI' = nextVer
                /\ UNCHANGED failedAt
    /\ UNCHANGED <<applied, schemaVer, dbVer, runs, execLog, runStart, accounts>>
    /\ InitFrame

\* lines 126-128 and mustAddBuiltInUsers: INSERT INTO accounts of cfg.Birb
AddBuiltInUsers(fault) ==
    /\ initPc = "seed"
    /\ IF dbVer = 0
       THEN LET err == ExecInsertAccount(BirbUser, fault)
            IN  IF err = NoErr
                THEN /\ accounts' = Append(accounts, NewAccountRow(BirbUser, "birb", "kb"))
                     /\ initPc' = "dbg1"
                ELSE /\ initPc' = Fail("dbg1")
                     /\ UNCHANGED accounts
       ELSE /\ initPc' = "dbg1"
            /\ UNCHANGED accounts
    /\ UNCHANGED <<sysParams, applied, schemaVer, dbVer, loopI, runs, execLog, runStart, failedAt>>
    /\ InitFrame

\* lines 131-132: _, _ = repo.AddAccountIfNotExist(&Account{Handle: "handle"},
\* "xyz"), twice; both results are dropped, so what stays of a call is the row
\* it inserted
DbgAddAccount(fault) ==
    /\ initPc \in {"dbg1", "dbg2"}
    /\ accounts' = IF ExecInsertAccount("handle", fault) = NoErr
                   THEN Append(accounts, NewAccountRow("handle", "", "xyz"))
                   ELSE accounts
    /\ initPc' = IF initPc = "dbg1" THEN "dbg2" ELSE "done"
    /\ UNCHANGED <<sysParams, applied, schemaVer, dbVer, loopI, runs, execLog, runStart, failedAt>>
    /\ InitFrame

\* the store and the process before the first start
InitEmptyDb ==
    /\ sysParams = EmptySysParams
    /\ applied = [v \in Versions |-> "no"]
    /\ schemaVer = ReleasedSchemaVer
    /\ initPc = "off"
    /\ dbVer = 0
    /\ loopI = 0
    /\ runs = 0
    /\ execLog = <<>>
    /\ runStart = [ver |-> 0, nAcc |-> 0, nExec |-> 0, clean |-> FALSE]
    /\ failedAt = 0

\* the store and the process once InitUpdateDb has run on an empty store
InitDb ==
    /\ sysParams = [table |-> TRUE, row |-> TRUE, val |-> ReleasedSchemaVer]
    /\ applied = [v \in Versions |-> IF v <= ReleasedSchemaVer THEN "done" ELSE "no"]
    /\ schemaVer = ReleasedSchemaVer
    /\ initPc = "done"
    /\ dbVer = 0
    /\ loopI = ReleasedSchemaVer
    /\ runs = 1
    /\ execLog = [v \in 1..ReleasedSchemaVer |-> v]
    /\ runStart = [ver |-> 0, nAcc |-> 0, nExec |-> 0, clean |-> FALSE]
    /\ failedAt = 0

(***************************************************************************)
(* Feed-post log                                                           *)
(***************************************************************************)
\* total number of AddFeedPostIfNew calls in a behaviour
MaxFeedCalls == 3

GuidHashes == {"g1", "g2"}
\* post.PostTime, post.Link, post.Title, post.Desription as one value
PostDatas == {"p1", "p2"}

InitFeed ==
    /\ feedPosts = {}
    /\ feedLog = <<>>

\* (account_id, post_guid_hash) is UNIQUE in feed_posts
FeedPostStored(accountId, hash) ==
    \E r \in feedPosts : r.accountId = accountId /\ r.hash = hash

\* the error of INSERT INTO feed_posts (...) VALUES (...)
ExecInsertFeedPost(accountId, hash, fault) ==
    IF fault # "none" THEN FaultErr(fault)
    ELSE IF FeedPostStored(accountId, hash) THEN ErrUnique
    ELSE NoErr

\* the condition of lines 376-378: a *sqlite3.Error with Code 19, ExtendedCode 2067
IsDuplicateFeedPost(err) ==
    AssertPointer(err) /\ err.Code = 19 /\ err.ExtendedCode = 2067

\* variant: isNew starts out true, as in AddAccountIfNotExist (line 152)
FeedPostResult_StartsNew(err) ==
    IF err = NoErr THEN [isNew |-> TRUE, err |-> NoErr]
    ELSE IF IsDuplicateFeedPost(err) THEN [isNew |-> FALSE, err |-> NoErr]
    ELSE [isNew |-> TRUE, err |-> err]

\* lines 370-385: what AddFeedPostIfNew returns for the error of the insert
\* (isNew is a named result: false unless line 371 sets it)
FeedPostResult(err) ==
    IF err = NoErr THEN [isNew |-> TRUE, err |-> NoErr]
    ELSE IF IsDuplicateFeedPost(err) THEN [isNew |-> FALSE, err |-> NoErr]
    ELSE [isNew |-> FALSE, err |-> err]

AddFeedPostIfNew(accountId, post, fault) ==
    LET err == ExecInsertFeedPost(accountId, post.hash, fault)
        res == FeedPostResult(err)
    IN  /\ Len(feedLog) < MaxFeedCalls
        /\ feedPosts' = IF err = NoErr
                        THEN feedPosts \cup {[accountId |-> accountId, hash |-> post.hash,
                                               data |-> post.data]}
                        ELSE feedPosts
        /\ feedLog' = Append(feedLog,
                             [accountId |-> accountId, hash |-> post.hash, fault |-> fault,
                              stored |-> FeedPostStored(accountId, post.hash),
                              isNew |-> res.isNew, err |-> res.err])
        /\ FeedFrame

(***************************************************************************)
(* Delivery queue                                                          *)
(***************************************************************************)
\* total number of AddTootQueueItem calls in a behaviour
MaxEnq == 4
\* GetTootQueueItems is called with maxCount in 0..MaxCount
MaxCount == 3

Contents == {"A", "B"}

\* the result of a call that has not been made
NoRes == [op |-> "none", tick |-> 0, id |-> 0, maxCount |-> 0, items |-> <<>>, err |-> NoErr]

InitQueue ==
    /\ tootQueue = {}
    /\ tqSeq = 0
    /\ tqIssued = <<>>
    /\ qRes = NoRes
    /\ conCursor = 0
    /\ conPages = <<>>
    /\ conM = 1
    /\ conDone = FALSE
    /\ conDeleted = FALSE

\* variant: a rowid that is not AUTOINCREMENT, one above the largest id stored
NextQueueId_MaxRowid ==
    IF tootQueue = {} THEN 1
    ELSE (CHOOSE r \in tootQueue : \A q \in tootQueue : q.id <= r.id).id + 1

\* the id the store gives the next row of toot_queue: auto-increasing
NextQueueId == tqSeq + 1

\* INSERT INTO toot_queue (sending_user, to_inbox, tooted_at, status_id, content):
\* tqi.Id is not among the columns
InsertedQueueRow(tqi) == [id |-> NextQueueId, content |-> tqi.content]

AddTootQueueItem(tqi) ==
    /\ tqSeq < MaxEnq
    /\ LET row == InsertedQueueRow(tqi)
       IN  /\ tootQueue' = tootQueue \cup {row}
           /\ tqSeq' = IF row.id > tqSeq THEN row.id ELSE tqSeq
           /\ tqIssued' = Append(tqIssued, row.id)
    /\ UNCHANGED <<qRes, conVars>>
    /\ QueueFrame

\* variant: WHERE id<=?
DeletedRows_UpTo(id) == {r \in tootQueue : r.id <= id}

\* the rows DELETE FROM toot_queue WHERE id=? removes
DeletedRows(id) == {r \in tootQueue : r.id = id}

\* variant: an error when the DELETE affected no row
DeleteErr_RowsAffected(id, fault) ==
    IF fault # "none" THEN FaultErr(fault)
    ELSE IF \E r \in tootQueue : r.id = id THEN NoErr
    ELSE ErrSql

\* the error DeleteTootQueueItem returns: that of the DELETE statement
DeleteErr(id, fault) == FaultErr(fault)

DeleteTootQueueItem(id, fault) ==
    /\ tootQueue' = IF fault = "none" THEN tootQueue \ DeletedRows(id) ELSE tootQueue
    /\ qRes' = [op |-> "delete", tick |-> 1 - qRes.tick, id |-> id, maxCount |-> 0,
                items |-> <<>>, err |-> DeleteErr(id, fault)]
    /\ conDeleted' = (conDeleted \/ tootQueue' # tootQueue)
    /\ UNCHANGED <<tqSeq, tqIssued, conCursor, conPages, conM, conDone>>
    /\ QueueFrame

\* variant: WHERE id>=?
QueueAbove_Inclusive(aboveId) == {r \in tootQueue : r.id >= aboveId}

\* WHERE id>?
QueueAbove(aboveId) == {r \in tootQueue : r.id > aboveId}

\* ORDER BY id ASC
RECURSIVE OrderById(_)
OrderById(rows) ==
    IF rows = {} THEN <<>>
    ELSE LET first == CHOOSE r \in rows : \A q \in rows : r.id <= q.id
         IN  <<first>> \o OrderById(rows \ {first})

\* variant: LIMIT ?+1
Limit_OneMore(rows, maxCount) ==
    IF maxCount < 0 \/ maxCount + 1 >= Len(rows) THEN rows ELSE SubSeq(rows, 1, maxCount + 1)

\* LIMIT ? (a negative limit is no limit)
Limit(rows, maxCount) ==
    IF maxCount < 0 \/ maxCount >= Len(rows) THEN rows ELSE SubSeq(rows, 1, maxCount)

\* what GetTootQueueItems(aboveId, maxCount) returns
TootQueueItems(aboveId, maxCount, fault) ==
    IF fault # "none" THEN [items |-> <<>>, err |-> FaultErr(fault)]
    ELSE [items |-> Limit(OrderById(QueueAbove(aboveId)), maxCount), err |-> NoErr]

GetTootQueueItems(aboveId, maxCount, fault) ==
    /\ LET got == TootQueueItems(aboveId, maxCount, fault)
       IN  qRes' = [op |-> "get", tick |-> 1 - qRes.tick, id |-> aboveId,
                    maxCount |-> maxCount, items |-> got.items, err |-> got.err]
    /\ UNCHANGED <<tootQueue, tqSeq, tqIssued, conVars>>
    /\ QueueFrame

\* the delivery worker starts a scan of the queue from cursor 0
ConStart(m) ==
    /\ conCursor' = 0
    /\ conPages' = <<>>
    /\ conM' = m
    /\ conDone' = FALSE
    /\ conDeleted' = FALSE
    /\ UNCHANGED <<tootQueue, tqSeq, tqIssued, qRes>>
    /\ QueueFrame

\* the delivery worker reads the next page and moves its cursor to the last id
ConPage ==
    /\ ~conDone
    /\ LET got == TootQueueItems(conCursor, conM, "none")
       IN  /\ conPages' = conPages \o got.items
           /\ conCursor' = IF got.items = <<>> THEN conCursor
                            ELSE got.items[Len(got.items)].id
           /\ conDone' = (got.items = <<>>)
    /\ UNCHANGED <<tootQueue, tqSeq, tqIssued, qRes, conM, conDeleted>>
    /\ QueueFrame

(***************************************************************************)
(* Follower store, toot log and the lookups                                *)
(***************************************************************************)
\* total number of follower-store, toot-log and lookup calls in a behaviour
MaxFollowOps == 3

\* the handles callers pass: two with an account (InitAccounts), one without
FollowUsers == {BirbUser, "handle", "h1"}
\* follower.UserUrl
FollowerUrls == {"u1", "u2"}
\* follower.Handle, follower.Host, follower.SharedInbox
FollowerInfos == {"a", "b"}
\* the account ids callers pass: every stored id and one that is not stored
AccountIdArgs == 1..(Len(accounts) + 1)
\* toot.PostGuidHash
TootHashes == {"t1"}

\* sql.ErrNoRows: row.Scan on a query that returned no row
ErrNoRows == [typ |-> "sql.ErrNoRows", Code |-> 0, ExtendedCode |-> 0]

NoFolRes ==
    [tick |-> 0, op |-> "", user |-> "", id |-> 0, url |-> "", fault |-> "none",
     val |-> 0, err |-> NoErr]

InitFollow ==
    /\ followers = <<>>
    /\ toots = <<>>
    /\ folRes = NoFolRes

FollowerRows == {followers[i] : i \in 1..Len(followers)}

\* a call returns: its arguments and its results
Returned(op, user, id, url, fault, val, err) ==
    /\ folRes.tick < MaxFollowOps
    /\ folRes' = [tick |-> folRes.tick + 1, op |-> op, user |-> user, id |-> id,
                  url |-> url, fault |-> fault, val |-> val, err |-> err]

\* SELECT id FROM accounts WHERE handle=? and row.Scan(&accountId): the id of the
\* handle's row, sql.ErrNoRows when there is none (accountId stays 0)
SelectAccountId(user) ==
    IF \E r \in AccountRows : r.handle = user
    THEN [id |-> (CHOOSE r \in AccountRows : r.handle = user).id, err |-> NoErr]
    ELSE [id |-> 0, err |-> ErrNoRows]

\* variant: the error of row.Scan is not looked at
ScanFailed_Ignored(sel) == FALSE

\* if err = row.Scan(&accountId); err != nil (lines 297 and 312)
ScanFailed(sel) == sel.err # NoErr

\* one row per (account_id, user_url): the key of table followers
FollowerStored(accountId, url) ==
    \E r \in FollowerRows : r.accountId = accountId /\ r.userUrl = url

\* the error of INSERT INTO followers VALUES(?, ?, ?, ?, ?)
ExecInsertFollower(accountId, url, fault) ==
    IF fault # "none" THEN FaultErr(fault)
    ELSE IF FollowerStored(accountId, url) THEN ErrUnique
    ELSE NoErr

NewFollowerRow(accountId, follower) ==
    [accountId |-> accountId, userUrl |-> follower.UserUrl, info |-> follower.info]

\* AddFollower: resolve the handle, insert the row; every error is returned
AddFollower(user, follower, fault) ==
    LET sel == SelectAccountId(user)
        err == ExecInsertFollower(sel.id, follower.UserUrl, fault)
    IN  /\ IF ScanFailed(sel)
           THEN /\ Returned("AddFollower", user, 0, follower.UserUrl, fault, 0, sel.err)
                /\ UNCHANGED followers
           ELSE /\ Returned("AddFollower", user, 0, follower.UserUrl, fault, 0, err)
                /\ followers' = IF err = NoErr
                                THEN Append(followers, NewFollowerRow(sel.id, follower))
                                ELSE followers
        /\ UNCHANGED toots
        /\ FollowFrame

\* variant: DELETE FROM followers WHERE account_id=?
DeleteMatches_AccountOnly(r, accountId, url) == r.accountId = accountId

\* WHERE account_id=? AND user_url=? (line 315)
DeleteMatches(r, accountId, url) == r.accountId = accountId /\ r.userUrl = url

\* the table after DELETE FROM followers WHERE account_id=? AND user_url=?
DeleteFollowerRows(accountId, url) ==
    SelectSeq(followers, LAMBDA r : ~DeleteMatches(r, accountId, url))

\* RemoveFollower: resolve the handle, delete the matching rows; the number of
\* rows deleted is not looked at
RemoveFollower(user, url, fault) ==
    LET sel == SelectAccountId(user)
    IN  /\ IF ScanFailed(sel)
           THEN /\ Returned("RemoveFollower", user, 0, url, fault, 0, sel.err)
                /\ UNCHANGED followers
           ELSE /\ Returned("RemoveFollower", user, 0, url, fault, 0, FaultErr(fault))
                /\ followers' = IF fault = "none"
                                THEN DeleteFollowerRows(sel.id, url)
                                ELSE followers
        /\ UNCHANGED toots
        /\ FollowFrame

\* AddToot: INSERT INTO toots, no key besides the rowid
AddToot(accountId, hash, fault) ==
    /\ Returned("AddToot", "", accountId, "", fault, 0, FaultErr(fault))
    /\ toots' = IF fault = "none"
                THEN Append(toots, [accountId |-> accountId, hash |-> hash])
                ELSE toots
    /\ UNCHANGED followers
    /\ FollowFrame

\* row.Scan of a query for one row: the first row, sql.ErrNoRows when none
ScanRow(rows, fault) ==
    IF fault # "none" THEN [ok |-> FALSE, err |-> FaultErr(fault)]
    ELSE IF rows = {} THEN [ok |-> FALSE, err |-> ErrNoRows]
    ELSE [ok |-> TRUE, err |-> NoErr]

\* errors.Is(err, sql.ErrNoRows)
IsErrNoRows(err) == err = ErrNoRows

\* DoesAccountExist: SELECT COUNT(*) always returns a row
DoesAccountExistResult(user, fault) ==
    IF fault # "none" THEN [val |-> FALSE, err |-> FaultErr(fault)]
    ELSE [val |-> Cardinality({r \in AccountRows : r.handle = user}) # 0,
          err |-> NoErr]

\* GetPrivKey (lines 202-215): "" and nil on sql.ErrNoRows
GetPrivKeyResult(user, fault) ==
    LET rows == {r \in AccountRows : r.handle = user}
        scan == ScanRow(rows, fault)
    IN  IF scan.err # NoErr
        THEN IF IsErrNoRows(scan.err) THEN [val |-> "", err |-> NoErr]
             ELSE [val |-> "", err |-> scan.err]
        ELSE [val |-> (CHOOSE r \in rows : TRUE).privkey, err |-> NoErr]

\* GetTootCount: COUNT(*) over toots JOIN accounts ON the handle
GetTootCountResult(user, fault) ==
    IF fault # "none" THEN [val |-> 0, err |-> FaultErr(fault)]
    ELSE [val |-> Cardinality({i \in 1..Len(toots) :
                      \E a \in AccountRows :
                          a.id = toots[i].accountId /\ a.handle = user}),
          err |-> NoErr]

\* the rows of followers JOIN accounts ON the handle, in scan order
FollowersOfUser(user) ==
    SelectSeq(followers, LAMBDA r :
        \E a \in AccountRows : a.id = r.accountId /\ a.handle = user)

\* GetFollowerCount: COUNT(*) over followers JOIN accounts ON the handle
GetFollowerCountResult(user, fault) ==
    IF fault # "none" THEN [val |-> 0, err |-> FaultErr(fault)]
    ELSE [val |-> Len(FollowersOfUser(user)), err |-> NoErr]

\* readGetFollowers: the rows scanned into a slice that starts empty
readGetFollowers(rows, fault) ==
    IF fault # "none" THEN [val |-> <<>>, err |-> FaultErr(fault)]
    ELSE [val |-> [i \in 1..Len(rows) |->
                      [UserUrl |-> rows[i].userUrl, info |-> rows[i].info]],
          err |-> NoErr]

GetFollowersByUserResult(user, fault) == readGetFollowers(FollowersOfUser(user), fault)

GetFollowersByIdResult(accountId, fault) ==
    readGetFollowers(SelectSeq(followers, LAMBDA r : r.accountId = accountId), fault)

\* GetFeedLastUpdated (lines 323-331): the error of row.Scan is returned as it is
GetFeedLastUpdatedResult(accountId, fault) ==
    LET rows == {r \in AccountRows : r.id = accountId}
        scan == ScanRow(rows, fault)
    IN  IF scan.err # NoErr THEN [val |-> 0, err |-> scan.err]
        ELSE [val |-> (CHOOSE r \in rows : TRUE).feedLastUpdated, err |-> NoErr]

\* a lookup returns and leaves every table as it is
LookupReturns(op, user, id, fault, res) ==
    /\ Returned(op, user, id, "", fault, res.val, res.err)
    /\ UNCHANGED <<followers, toots>>
    /\ FollowFrame

DoesAccountExist(user, fault) ==
    LookupReturns("DoesAccountExist", user, 0, fault, DoesAccountExistResult(user, fault))

GetAccountLookup(user, fault) ==
    LET got == GetAccount(user, fault)
    IN  LookupReturns("GetAccount", user, 0, fault, [val |-> got.acct, err |-> got.err])

GetPrivKey(user, fault) ==
    LookupReturns("GetPrivKey", user, 0, fault, GetPrivKeyResult(user, fault))

GetTootCount(user, fault) ==
    LookupReturns("GetTootCount", user, 0, fault, GetTootCountResult(user, fault))

GetFollowerCount(user, fault) ==
    LookupReturns("GetFollowerCount", user, 0, fault, GetFollowerCountResult(user, fault))

GetFollowersByUser(user, fault) ==
    LookupReturns("GetFollowersByUser", user, 0, fault,
                  GetFollowersByUserResult(user, fault))

GetFollowersById(accountId, fault) ==
    LookupReturns("GetFollowersById", "", accountId, fault,
                  GetFollowersByIdResult(accountId, fault))

GetFeedLastUpdated(accountId, fault) ==
    LookupReturns("GetFeedLastUpdated", "", accountId, fault,
                  GetFeedLastUpdatedResult(accountId, fault))

Init == NewRepo /\ InitDb /\ InitAcct /\ InitFeed /\ InitQueue /\ InitFollow /\ InitSched

NextId == \E c \in Callers : GetNextId(c)

SpecId == Init /\ [][NextId]_vars

\* the store's tables do not depend on the clock reading that seeds nextId
InitStore == Init /\ nextId = 0

NextAcct == \E p \in Procs : AddAccountIfNotExist(p)

SpecAcct == InitStore /\ [][NextAcct]_vars

NextCheck ==
    \/ \E id \in 1..(Len(accounts) + 1), lastUpdated \in Times, nextCheckDue \in Times :
          UpdateAccountFeedTimes(id, lastUpdated, nextCheckDue)
    \/ \E checkDue \in 0..(MaxTime + 1), fault \in {"none", "sql"} :
          GetAccountToCheck(checkDue, fault)

SpecCheck == InitStore /\ [][NextCheck]_vars

NextFeed ==
    \E accountId \in 1..2, hash \in GuidHashes, data \in PostDatas, fault \in Faults :
        AddFeedPostIfNew(accountId, [hash |-> hash, data |-> data], fault)

SpecFeed == InitStore /\ [][NextFeed]_vars

\* callers leave tqi.Id unset (0) or pass an item they read before
QueueInputs ==
    \/ \E id \in {0, 1}, content \in Contents :
          AddTootQueueItem([id |-> id, content |-> content])
    \/ \E id \in 0..(MaxEnq + 1) :
          DeleteTootQueueItem(id, "none")

NextQueue ==
    \/ QueueInputs
    \/ \E id \in 0..(MaxEnq + 1) : DeleteTootQueueItem(id, "sql")
    \/ \E aboveId \in 0..MaxEnq, maxCount \in 0..MaxCount, fault \in {"none", "sql"} :
          GetTootQueueItems(aboveId, maxCount, fault)

SpecQueue == InitStore /\ [][NextQueue]_vars

NextDrain ==
    \/ QueueInputs
    \/ \E m \in 1..MaxCount : ConStart(m)
    \/ ConPage

SpecDrain == InitStore /\ [][NextDrain]_vars

\* a new store: no table, no process started
InitNewStore ==
    /\ NewRepo /\ nextId = 0
    /\ InitEmptyDb
    /\ accounts = <<>>
    /\ InitAcctCalls /\ InitFeed /\ InitQueue /\ InitFollow /\ InitSched

NextInit ==
    \/ \E target \in Versions : StartInitUpdateDb(target)
    \/ \E fault \in {"none", "sql"} :
          \/ ReadSchemaVer(fault)
          \/ ReadScript(fault)
          \/ UpdateSchemaVer(fault)
          \/ AddBuiltInUsers(fault)
          \/ DbgAddAccount(fault)
    \/ ExecScript

SpecInit == InitNewStore /\ [][NextInit]_vars

NextSched ==
    \/ \E s \in Scheds, now \in 1..MaxTime, fault \in {"none", "sql"} :
          SchedGet(s, now, fault)
    \/ \E s \in Scheds, nextCheckDue \in Times : SchedUpdate(s, nextCheckDue)

SpecSched == InitStore /\ [][NextSched]_vars

FollowerArgs == [UserUrl : FollowerUrls, info : FollowerInfos]
LookupFaults == {"none", "sql"}

NextFollow ==
    \/ \E user \in FollowUsers, follower \in FollowerArgs, fault \in LookupFaults :
          AddFollower(user, follower, fault)
    \/ \E user \in FollowUsers, url \in FollowerUrls, fault \in LookupFaults :
          RemoveFollower(user, url, fault)
    \/ \E accountId \in AccountIdArgs, hash \in TootHashes, fault \in LookupFaults :
          AddToot(accountId, hash, fault)
    \/ \E user \in FollowUsers, fault \in LookupFaults :
          \/ DoesAccountExist(user, fault)
          \/ GetAccountLookup(user, fault)
          \/ GetPrivKey(user, fault)
          \/ GetTootCount(user, fault)
          \/ GetFollowerCount(user, fault)
          \/ GetFollowersByUser(user, fault)
    \/ \E accountId \in AccountIdArgs, fault \in LookupFaults :
          \/ GetFollowersById(accountId, fault)
          \/ GetFeedLastUpdated(accountId, fault)

SpecFollow == InitStore /\ [][NextFollow]_vars

(***************************************************************************)
(* Properties                                                              *)
(***************************************************************************)
\* the handles with no row when the store starts serving calls
NewHandles == Handles \ {InitAccounts[i].handle : i \in 1..Len(InitAccounts)}

\* the completed AddAccountIfNotExist calls for handle h that met no storage failure
AddCallsOn(h) ==
    {i \in 1..Len(addLog) : addLog[i].handle = h /\ addLog[i].fault = "none"}

Least(S) == CHOOSE i \in S : \A j \in S : i <= j

\* C1: for every handle not stored before, once calls of AddAccountIfNotExist for it
\* have returned (sequential or interleaved, no storage failure), the table holds
\* exactly one row with the handle, every call returned a nil error, exactly one call
\* (the one whose INSERT ran first) reported isNew=true, and GetAccount reads the
\* data that call stored.
C1_OneRowOneNew ==
    \A h \in NewHandles :
        LET cs == AddCallsOn(h)
        IN  cs # {} =>
              /\ Cardinality({i \in 1..Len(accounts) : accounts[i].handle = h}) = 1
              /\ \A i \in cs : addLog[i].err = NoErr
              /\ \A i \in cs : addLog[i].isNew <=> (i = Least(cs))
              /\ GetAccount(h, "none").acct.data = addLog[Least(cs)].data

\* two calls for one new handle with different data have returned, the second
\* reporting isNew=false, while another caller is inside its duplicate-key branch
C1_Witness ==
    \E h \in NewHandles : \E i, j \in AddCallsOn(h) :
        /\ i < j
        /\ addLog[i].data # addLog[j].data
        /\ ~addLog[j].isNew
        /\ \E p \in Procs : acctPc[p] = "fetch"

\* the completed AddFeedPostIfNew calls for a pair that met no storage failure
FeedCallsOn(a, g) ==
    {i \in 1..Len(feedLog) :
        feedLog[i].accountId = a /\ feedLog[i].hash = g /\ feedLog[i].fault = "none"}

\* C2: for every (accountId, guidHash) pair, after any number of AddFeedPostIfNew
\* calls for it, in any order with calls for other pairs, feed_posts holds exactly
\* one row for the pair and only the first call reported isNew=true.
C2_OneRowFirstNew ==
    \A a \in 1..2, g \in GuidHashes :
        LET cs == FeedCallsOn(a, g)
        IN  cs # {} =>
              /\ Cardinality({r \in feedPosts : r.accountId = a /\ r.hash = g}) = 1
              /\ \A i \in cs : feedLog[i].isNew <=> (i = Least(cs))

\* a pair was added twice with a call for another pair in between
C2_Witness ==
    /\ Len(feedLog) = 3
    /\ \A i \in 1..3 : feedLog[i].fault = "none"
    /\ feedLog[1].accountId = feedLog[3].accountId
    /\ feedLog[1].hash = feedLog[3].hash
    /\ feedLog[2].hash # feedLog[1].hash
    /\ ~feedLog[3].isNew

\* C3: every AddFeedPostIfNew call for a pair that is already stored returns
\* isNew=false with a nil error.
C3_DuplicateSwallowed ==
    \A i \in 1..Len(feedLog) :
        (feedLog[i].stored /\ feedLog[i].fault = "none")
            => (~feedLog[i].isNew /\ feedLog[i].err = NoErr)

\* C4: the values GetNextId returns are strictly increasing in the order in which
\* the calls took the mutex, hence pairwise distinct and increasing for each caller.
C4_IncreasingInLockOrder ==
    \A i, j \in 1..Len(idCalls) :
        (i < j /\ idCalls[i].done /\ idCalls[j].done) => idCalls[i].ret < idCalls[j].ret

\* three calls have returned, the two callers taking the mutex in turn
C4_Witness ==
    /\ Len(idCalls) >= 3
    /\ \A i \in 1..3 : idCalls[i].done
    /\ idCalls[1].caller # idCalls[2].caller
    /\ idCalls[1].caller = idCalls[3].caller

Min2(a, b) == IF a < b THEN a ELSE b

\* C5: a GetTootQueueItems(aboveId, maxCount) call returns min(maxCount, n) stored
\* items with id above aboveId, in strictly ascending id order, and every such item
\* it leaves out has a larger id than all it returns.
C5_DrainExact ==
    [][(qRes' # qRes /\ qRes'.op = "get" /\ qRes'.err = NoErr) =>
        LET items == qRes'.items
            above == {r \in tootQueue : r.id > qRes'.id}
        IN  /\ Len(items) = Min2(qRes'.maxCount, Cardinality(above))
            /\ \A i \in 1..Len(items) : items[i] \in above
            /\ \A i \in 1..(Len(items) - 1) : items[i].id < items[i + 1].id
            /\ \A r \in above :
                 (\A i \in 1..Len(items) : items[i] # r)
                     => \A i \in 1..Len(items) : items[i].id < r.id]_vars

\* a call with aboveId >= 1 and maxCount 2 returned two of three qualifying items
C5_Witness ==
    /\ qRes.op = "get"
    /\ qRes.err = NoErr
    /\ qRes.id >= 1
    /\ qRes.maxCount = 2
    /\ Len(qRes.items) = 2
    /\ Cardinality({r \in tootQueue : r.id > qRes.id}) = 3
    /\ \E r \in tootQueue : r.id <= qRes.id
    /\ \A i \in 1..2 : qRes.items[i] \in tootQueue

\* C6: while no item is deleted the pages of a cursor scan are strictly ascending
\* by id, and when the scan ends (an empty page) their concatenation is exactly the
\* stored items, each once.
C6_PagesComplete ==
    [][/\ ~conDeleted' =>
            \A i \in 1..(Len(conPages') - 1) : conPages'[i].id < conPages'[i + 1].id
       /\ (conDone' /\ ~conDone /\ ~conDeleted') =>
            /\ {conPages'[i] : i \in 1..Len(conPages')} = tootQueue'
            /\ Len(conPages') = Cardinality(tootQueue')]_vars

\* a scan with page size 2 over at least three items has ended
C6_Witness ==
    /\ conDone
    /\ ~conDeleted
    /\ conM = 2
    /\ Len(conPages) >= 3
    /\ {conPages[i] : i \in 1..Len(conPages)} = tootQueue

\* C7: the ids given to enqueued items are strictly increasing in enqueue order,
\* whatever was deleted in between, so no id is given twice.
C7_IdsFollowInsertion ==
    \A i, j \in 1..Len(tqIssued) : i < j => tqIssued[i] < tqIssued[j]

\* items 1 and 2 were enqueued and deleted, GetTootQueueItems(0, n) then found the
\* queue empty, and the item enqueued after that got id 3
C7_Witness ==
    /\ tqIssued = <<1, 2, 3>>
    /\ qRes.op = "get"
    /\ qRes.err = NoErr
    /\ qRes.id = 0
    /\ qRes.maxCount >= 1
    /\ qRes.items = <<>>
    /\ {r.id : r \in tootQueue} = {3}

\* C8: DeleteTootQueueItem(id) for an id that is not in the queue returns a nil
\* error and changes neither the rows of the queue nor the id sequence.
C8_DeleteMissing ==
    [][\A id \in 0..(MaxEnq + 1) :
          (DeleteTootQueueItem(id, "none") /\ ~\E r \in tootQueue : r.id = id)
              => (tootQueue' = tootQueue /\ tqSeq' = tqSeq /\ qRes'.err = NoErr)]_vars

\* an id that was never given out was deleted from a non-empty queue
C8_Witness ==
    /\ qRes.op = "delete"
    /\ qRes.err = NoErr
    /\ qRes.id > tqSeq
    /\ Cardinality(tootQueue) >= 2

\* C9: GetTootQueueItems leaves the queue as it is, DeleteTootQueueItem(id) removes
\* the item with that id and no other, rows leave the queue in no other step, and
\* GetTootQueueItems(0, maxCount) with maxCount at least the queue's size returns
\* every item still stored.
C9_OnlyDeleteRemoves ==
    [][/\ \A id \in 0..(MaxEnq + 1) :
            DeleteTootQueueItem(id, "none") => tootQueue' = {r \in tootQueue : r.id # id}
       /\ (qRes' # qRes /\ qRes'.op = "get") => tootQueue' = tootQueue
       /\ ~(tootQueue \subseteq tootQueue') => (qRes' # qRes /\ qRes'.op = "delete")
       /\ (qRes' # qRes /\ qRes'.op = "get" /\ qRes'.err = NoErr /\ qRes'.id = 0
             /\ qRes'.maxCount >= Cardinality(tootQueue))
            => {qRes'.items[i] : i \in 1..Len(qRes'.items)} = tootQueue]_vars

\* A, B, C enqueued, item 1 deleted, and GetTootQueueItems(0, 3) returned [B, C]
C9_Witness ==
    /\ tqIssued = <<1, 2, 3>>
    /\ qRes.op = "get"
    /\ qRes.id = 0
    /\ qRes.maxCount = 3
    /\ Len(qRes.items) = 2
    /\ qRes.items[1].id = 2
    /\ qRes.items[2].id = 3
    /\ {qRes.items[i] : i \in 1..2} = tootQueue

\* C10: a GetAccountToCheck(t) call that meets no storage failure returns nil when no
\* stored account has next_check_due < t, and otherwise a stored account with
\* next_check_due < t.
C10_DueAccount ==
    [][(chkRes' # chkRes /\ chkRes'.err = NoErr) =>
        LET due == {r \in AccountRows : r.nextCheckDue < chkRes'.checkDue}
        IN  /\ due = {} => chkRes'.acct = Nil
            /\ due # {} => \E r \in due : chkRes'.acct = ScanAccount(r)
            /\ chkRes'.acct # Nil => chkRes'.acct.nextCheckDue < chkRes'.checkDue]_vars

\* a call returned a due account while another account was not due
C10_Witness ==
    /\ chkRes.err = NoErr
    /\ chkRes.acct # Nil
    /\ \E r \in AccountRows : ScanAccount(r) = chkRes.acct
    /\ \E r \in AccountRows : r.nextCheckDue >= chkRes.checkDue

\* C13: a call whose INSERT fails on the unique handle returns isNew=false with
\* a nil error when the follow-up GetAccount succeeds; a call whose INSERT fails
\* in any other way returns a non-nil error and has inserted no row.
C13_DuplicateVersusFailure ==
    \A i \in 1..Len(addLog) :
        /\ (addLog[i].insErr = ErrUnique /\ addLog[i].fault = "none")
              => (~addLog[i].isNew /\ addLog[i].err = NoErr)
        /\ (addLog[i].insErr # NoErr /\ addLog[i].insErr # ErrUnique)
              => (addLog[i].err # NoErr /\ ~addLog[i].inserted)

\* one call hit the duplicate handle and returned (false, nil); another met a
\* NOT NULL constraint failure and returned its error
C13_Witness ==
    \E i, j \in 1..Len(addLog) :
        /\ addLog[i].insErr = ErrUnique /\ addLog[i].fault = "none"
        /\ ~addLog[i].isNew /\ addLog[i].err = NoErr
        /\ addLog[j].insErr = ErrNotNull /\ addLog[j].err = ErrNotNull

\* C20: a returned AddAccountIfNotExist call reports isNew=true only if it
\* inserted a row.
C20_NewOnlyIfInserted ==
    \A i \in 1..Len(addLog) : addLog[i].isNew => addLog[i].inserted

\* no two rows of a follower table have the same (account id, follower URL)
OneRowPerPair(rows) ==
    \A i, j \in 1..Len(rows) :
        (rows[i].accountId = rows[j].accountId /\ rows[i].userUrl = rows[j].userUrl)
            => i = j

\* the step is the return of a call of the operation
Returns(op) == folRes'.tick # folRes.tick /\ folRes'.op = op

\* C14: every step leaves at most one follower row per (account id, follower
\* URL). An AddFollower call whose handle has no account, or whose pair is
\* stored, returns an error and leaves the table as it was; any other call that
\* meets no storage failure returns nil and appends one row, of that pair.
C14_FollowersAreASet ==
    [][ /\ OneRowPerPair(followers')
        /\ Returns("AddFollower") =>
              LET sel == SelectAccountId(folRes'.user)
              IN  IF sel.err # NoErr \/ FollowerStored(sel.id, folRes'.url)
                  THEN folRes'.err # NoErr /\ followers' = followers
                  ELSE folRes'.fault = "none" =>
                         /\ folRes'.err = NoErr
                         /\ Len(followers') = Len(followers) + 1
                         /\ SubSeq(followers', 1, Len(followers)) = followers
                         /\ followers'[Len(followers')].accountId = sel.id
                         /\ followers'[Len(followers')].userUrl = folRes'.url
      ]_vars

\* AddFollower has just been refused a pair that is stored, while the same
\* follower URL is stored under two accounts
C14_Witness ==
    /\ folRes.op = "AddFollower" /\ folRes.fault = "none" /\ folRes.err = ErrUnique
    /\ Len(followers) = 2
    /\ followers[1].accountId # followers[2].accountId
    /\ followers[1].userUrl = followers[2].userUrl

\* C15 as stated: a RemoveFollower call that meets no storage failure, for a
\* pair that is not stored, returns nil and leaves the table as it was.
C15_AbsentPairSilent ==
    [][ (Returns("RemoveFollower") /\ folRes'.fault = "none"
           /\ ~FollowerStored(SelectAccountId(folRes'.user).id, folRes'.url))
          => (folRes'.err = NoErr /\ followers' = followers) ]_vars

\* C15, amended: a RemoveFollower call whose handle has an account, and that
\* meets no storage failure, returns nil and removes the rows of exactly that
\* pair (none when the pair is not stored); a call whose handle has no account
\* returns an error; a call that returns an error leaves the table as it was.
C15_RemovesExactlyThePair ==
    [][ Returns("RemoveFollower") =>
          LET sel == SelectAccountId(folRes'.user)
          IN  /\ (sel.err = NoErr /\ folRes'.fault = "none") =>
                    /\ folRes'.err = NoErr
                    /\ followers' = SelectSeq(followers, LAMBDA r :
                            ~(r.accountId = sel.id /\ r.userUrl = folRes'.url))
              /\ sel.err # NoErr => folRes'.err # NoErr
              /\ folRes'.err # NoErr => followers' = followers
      ]_vars

\* RemoveFollower has just removed one of two rows of the same account
C15_Witness ==
    /\ folRes.op = "RemoveFollower" /\ folRes.err = NoErr /\ folRes.user = BirbUser
    /\ folRes.url = "u1"
    /\ Len(followers) = 1
    /\ followers[1].accountId = 1 /\ followers[1].userUrl = "u2"

\* the lookups
Lookups ==
    {"DoesAccountExist", "GetAccount", "GetPrivKey", "GetTootCount",
     "GetFollowerCount", "GetFollowersByUser", "GetFollowersById",
     "GetFeedLastUpdated"}

\* C12: a lookup that meets no storage failure returns a nil error, whether or
\* not a row matches its key.
C12_NotFoundIsNoError ==
    (folRes.op \in Lookups /\ folRes.fault = "none") => folRes.err = NoErr

\* C19: a GetAccountToCheck call that hands a scheduler an account leaves the
\* accounts table as it was, so the account it returned is as due afterwards as
\* it was before and the next caller can be handed the same one.
C19_CheckDoesNotClaim ==
    [][ \A s \in Scheds :
          (schedAcct[s] = Nil /\ schedAcct'[s] # Nil) =>
              /\ accounts' = accounts
              /\ \E r \in AccountRows :
                    /\ ScanAccount(r) = schedAcct'[s]
                    /\ r.nextCheckDue < schedNow'[s]
      ]_vars

\* both schedulers have been handed the same account and neither has called
\* UpdateAccountFeedTimes for it
C19_Witness ==
    /\ schedAcct[1] # Nil
    /\ schedAcct[1].id = schedAcct[2].id
    /\ \E r \in AccountRows :
          r.id = schedAcct[1].id /\ r.nextCheckDue < schedNow[1]
                                 /\ r.nextCheckDue < schedNow[2]

\* the scripts the running InitUpdateDb has handed to db.Exec
RunExecs == SubSeq(execLog, runStart.nExec + 1, Len(execLog))

\* the accounts the running InitUpdateDb has added
RunAccounts == SubSeq(accounts, runStart.nAcc + 1, Len(accounts))

\* C11: a run of InitUpdateDb that starts, after a run that returned, on a store
\* at the target version hands no script to the store, leaves the persisted
\* version as it is and leaves table accounts as the run before left it.
C11_SecondRunChangesNothing ==
    (runStart.clean /\ runStart.ver = schemaVer) =>
        /\ RunExecs = <<>>
        /\ PersistedVer = runStart.ver
        /\ RunAccounts = <<>>

BuiltInAdded == \E k \in 1..Len(RunAccounts) : RunAccounts[k].handle = BirbUser

\* C18: a run has inserted the built-in account only if the version was 0 at its
\* start and it reached the target, and a run past the seeding step has inserted
\* it if the version was 0 at its start; the built-in handle is stored at most
\* once; a run that started at a version above 0 has added no account.
C18_SeededOnFirstInitOnly ==
    /\ BuiltInAdded => (runStart.ver = 0 /\ PersistedVer = schemaVer)
    /\ (initPc \in {"dbg1", "dbg2", "done"} /\ runStart.ver = 0) => BuiltInAdded
    /\ Cardinality({k \in 1..Len(accounts) : accounts[k].handle = BirbUser}) <= 1
    /\ runStart.ver > 0 => RunAccounts = <<>>

====
